---- MODULE Spec2Model ----
(***************************************************************************)
(* Session/token lifecycle and request-authorization layer.                *)
(*                                                                         *)
(* Part I  : the client auth store (src/client/stores/auth): the signals   *)
(*           of createAuthStore, the async actions of createAuthActions    *)
(*           and the auto-refresh effect of createAuthStoreWithAutoRefresh.*)
(* Part II : the server middleware chain (src/server/middleware/auth.ts)   *)
(*           and the tenant-scoped handlers (src/server/routes).           *)
(*                                                                         *)
(* An async function is modelled by one action per stretch of code between *)
(* two awaits: <op>Call runs the code up to the fetch, <op>Settle runs the *)
(* code from the fetch's outcome to the end of the function.  Awaits that  *)
(* are not separated by a write to the store (response.json() after fetch) *)
(* belong to the same Settle step.                                         *)
(***************************************************************************)
EXTENDS Integers, Sequences, FiniteSets, TLC

\* ------------------------------------------------------------------------
\* Bounds
\* ------------------------------------------------------------------------
\* Number of action invocations that may be suspended at their fetch at once.
MaxInflight == 2
\* Date.now() is drawn from 1..MaxTime.
MaxTime == 1
\* Cap on concurrently live interval timers (reached only by a leaking store).
MaxLiveTimers == 2
\* The cookie jar is followed for MaxClock seconds.
MaxClock == 90000

\* ------------------------------------------------------------------------
\* Values
\* ------------------------------------------------------------------------
\* A nullable value T | null is the set {} (null) or {x}.
None == {}
Some(x) == {x}
TheValue(o) == CHOOSE x \in o : TRUE

UserIds == {"alice", "bob"}
\* UserDetail, reduced to the fields the store's computed signals read.
\* profile.role of each account
AccountRoles == [alice |-> "clinica_admin", bob |-> "readonly"]
Users ==
    {[username |-> u, activo |-> a, role |-> AccountRoles[u]] :
        u \in UserIds, a \in BOOLEAN}
Timestamps == 1..MaxTime
\* The values Date.now() may return on a path that calls it (one dummy value
\* is drawn on a path that does not).
DateNow(called) == IF called THEN Timestamps ELSE {1}

\* Strings the local validations look at, as sequences of characters.
Strings == {<<>>, <<" ">>, <<"a">>, <<" ", "a">>}

RECURSIVE TrimStart(_)
TrimStart(s) == IF s # <<>> /\ Head(s) = " " THEN TrimStart(Tail(s)) ELSE s
RECURSIVE TrimEnd(_)
TrimEnd(s) ==
    IF s # <<>> /\ s[Len(s)] = " " THEN TrimEnd(SubSeq(s, 1, Len(s) - 1)) ELSE s
\* String.prototype.trim
Trim(s) == TrimEnd(TrimStart(s))
\* JavaScript truthiness of a string
Truthy(s) == s # <<>>

\* ------------------------------------------------------------------------
\* fetch outcomes
\* ------------------------------------------------------------------------
ErrorStatuses == {401, 403, 404, 500}
\* What response.json() followed by schema.safeParse yields for a 2xx
\* response: a body of the expected shape ("wellformed", carrying a user),
\* {valid: false} ("invalid"), {valid: true} without user ("nouser"), or
\* anything else ("malformed").  An error response carries an error body.
Bodies == {"wellformed", "malformed", "invalid", "nouser"}
\* fetch either rejects (network error) or resolves with a Response.
Responses ==
    [failed : {FALSE}, status : {200}, body : {"wellformed"}, user : Users]
    \cup [failed : {FALSE}, status : {200}, body : Bodies \ {"wellformed"},
          user : {CHOOSE u \in Users : TRUE}]
    \cup [failed : {FALSE}, status : ErrorStatuses, body : {"error"},
          user : {CHOOSE u \in Users : TRUE}]
    \cup [failed : {TRUE}, status : {200}, body : {"malformed"},
          user : {CHOOSE u \in Users : TRUE}]
\* logout and refreshToken never read the body: one body per status is drawn.
StatusResponses == {r \in Responses : r.body \in {"error", "invalid"} \/ r.failed}
\* Response.ok
Ok(resp) == resp.status >= 200 /\ resp.status <= 299

\* ------------------------------------------------------------------------
\* State
\* ------------------------------------------------------------------------
VARIABLES
    state,              \* the four mutable signals of createAuthStore
    refreshIntervalId,  \* index.ts: let refreshIntervalId
    liveTimers,         \* interval timers the runtime still fires
    effectDisposed,     \* disposeAutoRefreshEffect() has been called
    inflight,           \* action name -> invocations suspended at their fetch
    notified,           \* snapshots delivered to a subscriber by the last step
    lastEvent           \* the last step taken and how the promise settled

storeVars == <<state, refreshIntervalId, liveTimers, effectDisposed, inflight,
               notified, lastEvent>>

\* One request on its way through the server's middleware chain.
VARIABLES
    chain,        \* the middleware registered for the route, in order
    route,        \* the handler the route ends in
    request,      \* what the client sent
    ctx,          \* the request context: c.set / c.get
    pc,           \* where the request is
    pos,          \* index in chain of the middleware that runs or ran last
    accessToken,  \* the local accessToken of the middleware awaiting the issuer
    issuerCalls,  \* the calls made to the issuer for this request
    dataCalls,    \* the calls made to the data service for this request
    response      \* the status the request was answered with

chainVars == <<chain, route, request, ctx, pc, pos, accessToken, issuerCalls,
               dataCalls, response>>

\* The browser's cookies for the server's origin.
VARIABLES
    jar,    \* cookie name -> the time the stored cookie expires at, or null
    clock   \* the time, in seconds

cookieVars == <<jar, clock>>

\* The last call of a function of shared/utils/token-refresh.ts or of
\* stores/auth/types.ts: its name, its arguments and what it returned.
VARIABLES call

utilVars == <<call>>

\* One page running one AuthService over the browser's localStorage.
VARIABLES
    storage,              \* localStorage: access_token, refresh_token, user
    cleanupTokenRefresh,  \* AuthService.cleanupTokenRefresh: the interval it clears
    intervals,            \* the intervals of setupTokenRefresh the runtime still fires
    nextIntervalId,       \* the id the next setInterval returns
    tickInflight,         \* interval -> its callbacks suspended at refreshAccessToken
    serviceInflight,      \* method -> invocations suspended at their fetch
    location              \* window.location.href

serviceVars == <<storage, cleanupTokenRefresh, intervals, nextIntervalId,
                 tickInflight, serviceInflight, location>>

\* The last request a session action of the store sent and how the server
\* answered it.
VARIABLES exchange

wireVars == <<exchange>>

vars == <<storeVars, chainVars, cookieVars, utilVars, serviceVars, wireVars>>

\* What the steps of one part leave alone: the variables of the other parts.
besidesStore == <<chainVars, cookieVars, utilVars, serviceVars, wireVars>>
besidesChain == <<storeVars, cookieVars, utilVars, serviceVars, wireVars>>
besidesCookies == <<storeVars, chainVars, utilVars, serviceVars, wireVars>>
besidesUtils == <<storeVars, chainVars, cookieVars, serviceVars, wireVars>>
besidesService == <<storeVars, chainVars, cookieVars, utilVars, wireVars>>

Ops == {"login", "logout", "refreshToken", "validateCurrentSession", "register"}
\* The actions that set isLoading
LoadingOps == Ops \ {"refreshToken"}
\* What can be suspended at a fetch: an action called by the application, or
\* the setInterval callback of index.ts inside its call of refreshToken().
Calls == Ops \cup {"autoRefresh"}

\* createAuthStore: the initial values of the signals
createAuthStore ==
    [currentUser |-> None, isLoading |-> FALSE, error |-> None,
     lastRefreshTimestamp |-> None]

\* Faulty variant of isAuthenticated: the profile's activo flag is not read.
isAuthenticatedAnyUser(s) == s.currentUser # None

\* store.ts: computed isAuthenticated
isAuthenticated(s) ==
    s.currentUser # None /\ TheValue(s.currentUser).activo = TRUE

\* ------------------------------------------------------------------------
\* Signal writes, batch() and subscriber notification
\* ------------------------------------------------------------------------
\* A write is <<signal name, value>>.
RECURSIVE ApplyWrites(_, _)
ApplyWrites(s, ws) ==
    IF ws = <<>> THEN s
    ELSE ApplyWrites([s EXCEPT ![ws[1][1]] = ws[1][2]], Tail(ws))

\* The snapshots a subscriber of the store is run with while `ws` is applied
\* to s.  Inside batch() subscribers run once, when the batch ends; outside
\* they run after every write that changes a signal.
RECURSIVE Unbatched(_, _)
Unbatched(s, ws) ==
    IF ws = <<>> THEN <<>>
    ELSE LET s1 == [s EXCEPT ![ws[1][1]] = ws[1][2]]
         IN  (IF s1 # s THEN <<s1>> ELSE <<>>) \o Unbatched(s1, Tail(ws))

Snapshots(s, step) ==
    IF step.batched
    THEN IF ApplyWrites(s, step.writes) # s
         THEN <<ApplyWrites(s, step.writes)>> ELSE <<>>
    ELSE Unbatched(s, step.writes)

Batch(ws) == [batched |-> TRUE, writes |-> ws]
Plain(ws) == [batched |-> FALSE, writes |-> ws]
NoWrites == Plain(<<>>)

\* ------------------------------------------------------------------------
\* index.ts: the auto-refresh effect and destroy()
\* ------------------------------------------------------------------------
\* The timer side of the store: [refreshIntervalId, liveTimers].
Max(S) == CHOOSE x \in S : \A y \in S : y <= x
\* setInterval returns an id no live timer and no held id has.
FreshTimerId(tm) == Max(tm.liveTimers \cup tm.refreshIntervalId \cup {0}) + 1

\* clearInterval(id)
clearInterval(live, id) == live \ id

\* Faulty variant of AutoRefreshEffect: on de-authentication the id is
\* forgotten without clearInterval.
AutoRefreshEffectLeaks(tm, isAuth) ==
    IF isAuth
    THEN LET live == IF tm.refreshIntervalId # None
                     THEN clearInterval(tm.liveTimers, tm.refreshIntervalId)
                     ELSE tm.liveTimers
             id   == FreshTimerId(tm)
         IN  [refreshIntervalId |-> Some(id), liveTimers |-> live \cup {id}]
    ELSE [refreshIntervalId |-> None, liveTimers |-> tm.liveTimers]

\* The body of effect(() => {...}) of createAuthStoreWithAutoRefresh, run
\* with the value of state.isAuthenticated.
AutoRefreshEffect(tm, isAuth) ==
    IF isAuth
    THEN LET live == IF tm.refreshIntervalId # None
                     THEN clearInterval(tm.liveTimers, tm.refreshIntervalId)
                     ELSE tm.liveTimers
             id   == FreshTimerId(tm)
         IN  [refreshIntervalId |-> Some(id), liveTimers |-> live \cup {id}]
    ELSE IF tm.refreshIntervalId # None
         THEN [refreshIntervalId |-> None,
               liveTimers |-> clearInterval(tm.liveTimers, tm.refreshIntervalId)]
         ELSE tm

\* The effect depends on the computed isAuthenticated only: it is re-run for
\* a snapshot iff the computed's value differs from the one it last read.
RECURSIVE RunEffect(_, _, _)
RunEffect(tm, prevAuth, snaps) ==
    IF snaps = <<>> THEN tm
    ELSE LET a == isAuthenticated(Head(snaps))
         IN  RunEffect(IF a # prevAuth THEN AutoRefreshEffect(tm, a) ELSE tm,
                       a, Tail(snaps))

\* Faulty variant of destroyTimer: the id is forgotten without clearInterval.
destroyTimerKeepsInterval(tm) ==
    [refreshIntervalId |-> None, liveTimers |-> tm.liveTimers]

\* destroy(): the timer part (the effect is disposed by the action)
destroyTimer(tm) ==
    IF tm.refreshIntervalId # None
    THEN [refreshIntervalId |-> None,
          liveTimers |-> clearInterval(tm.liveTimers, tm.refreshIntervalId)]
    ELSE tm

\* ------------------------------------------------------------------------
\* actions.ts: what each action does before and after its fetch
\* ------------------------------------------------------------------------
\* login, lines 35-37
LoginInputValid(username, password) ==
    Truthy(Trim(username)) /\ Truthy(Trim(password))

\* login, lines 40-43
loginCall == Batch(<< <<"error", None>>, <<"isLoading", TRUE>> >>)

\* The branch the code after the fetch takes in login and register.
FetchPath(resp) ==
    IF resp.failed THEN "networkError"
    ELSE IF ~Ok(resp) THEN "httpError"
    ELSE IF resp.body # "wellformed" THEN "malformed"
    ELSE "ok"

\* The message of the Error the catch block receives.
ErrorMessage(path) ==
    CASE path = "networkError" -> "Failed to fetch"
      [] path = "httpError"    -> "server error message"
      [] path = "malformed"    -> "Invalid server response format"

\* Faulty variant of loginSettle: the success path does not write currentUser.
loginSettleKeepsIdentity(resp, t) ==
    IF FetchPath(resp) = "ok"
    THEN [step   |-> Batch(<< <<"lastRefreshTimestamp", Some(t)>>,
                              <<"isLoading", FALSE>>,
                              <<"error", None>> >>),
          result |-> "resolved"]
    ELSE [step   |-> Batch(<< <<"error", Some(ErrorMessage(FetchPath(resp)))>>,
                              <<"isLoading", FALSE>> >>),
          result |-> "rejected"]

\* Faulty variant of loginSettle: a failure also clears the identity.
loginSettleFailureLogsOut(resp, t) ==
    IF FetchPath(resp) = "ok"
    THEN [step   |-> Batch(<< <<"currentUser", Some(resp.user)>>,
                              <<"lastRefreshTimestamp", Some(t)>>,
                              <<"isLoading", FALSE>>,
                              <<"error", None>> >>),
          result |-> "resolved"]
    ELSE [step   |-> Batch(<< <<"currentUser", None>>,
                              <<"lastRefreshTimestamp", None>>,
                              <<"error", Some(ErrorMessage(FetchPath(resp)))>>,
                              <<"isLoading", FALSE>> >>),
          result |-> "rejected"]

\* Faulty variant of loginSettle: the success path writes the signals
\* outside batch().
loginSettleUnbatched(resp, t) ==
    IF FetchPath(resp) = "ok"
    THEN [step   |-> Plain(<< <<"currentUser", Some(resp.user)>>,
                              <<"lastRefreshTimestamp", Some(t)>>,
                              <<"isLoading", FALSE>>,
                              <<"error", None>> >>),
          result |-> "resolved"]
    ELSE [step   |-> Batch(<< <<"error", Some(ErrorMessage(FetchPath(resp)))>>,
                              <<"isLoading", FALSE>> >>),
          result |-> "rejected"]

\* login, lines 45-81
loginSettle(resp, t) ==
    IF FetchPath(resp) = "ok"
    THEN [step   |-> Batch(<< <<"currentUser", Some(resp.user)>>,
                              <<"lastRefreshTimestamp", Some(t)>>,
                              <<"isLoading", FALSE>>,
                              <<"error", None>> >>),
          result |-> "resolved"]
    ELSE [step   |-> Batch(<< <<"error", Some(ErrorMessage(FetchPath(resp)))>>,
                              <<"isLoading", FALSE>> >>),
          result |-> "rejected"]

\* logout, line 91
logoutCall == Plain(<< <<"isLoading", TRUE>> >>)

\* logout: await fetch resolves for every Response (response.ok is not read)
\* and a rejection is caught.
LogoutPath(resp) ==
    IF resp.failed THEN "networkError"
    ELSE IF ~Ok(resp) THEN "httpError" ELSE "ok"

\* Faulty variant of logoutSettle: the store is cleared after the fetch
\* inside try, so a network error skips the clearing and is rethrown.
logoutSettleClearsInTry(resp) ==
    IF LogoutPath(resp) = "networkError"
    THEN [step |-> Plain(<< <<"isLoading", FALSE>> >>), result |-> "rejected"]
    ELSE [step   |-> Batch(<< <<"currentUser", None>>,
                              <<"lastRefreshTimestamp", None>>,
                              <<"isLoading", FALSE>>,
                              <<"error", None>> >>),
          result |-> "resolved"]

\* logout, lines 93-110: the finally block runs on every path
logoutSettle(resp) ==
    [step   |-> Batch(<< <<"currentUser", None>>,
                         <<"lastRefreshTimestamp", None>>,
                         <<"isLoading", FALSE>>,
                         <<"error", None>> >>),
     result |-> "resolved"]

\* refreshToken: the branch taken after the fetch
RefreshPath(resp) ==
    IF resp.failed THEN "networkError"
    ELSE IF ~Ok(resp)
         THEN IF resp.status = 401 \/ resp.status = 403
              THEN "sessionExpired" ELSE "httpError"
         ELSE "ok"

SessionExpiredMessage == "Session expired. Please login again."

\* Faulty variant of refreshTokenSettle: every failure is taken for an
\* invalid credential.
refreshTokenSettleAnyFailureLogsOut(resp, t) ==
    IF RefreshPath(resp) = "ok"
    THEN [step   |-> Plain(<< <<"lastRefreshTimestamp", Some(t)>> >>),
          result |-> "resolved"]
    ELSE [step   |-> Batch(<< <<"currentUser", None>>,
                              <<"lastRefreshTimestamp", None>>,
                              <<"error", Some(SessionExpiredMessage)>> >>),
          result |-> "rejected"]

\* Faulty variant of refreshTokenSettle: a 401/403 sets the error only.
refreshTokenSettleKeepsUser(resp, t) ==
    CASE RefreshPath(resp) = "ok" ->
            [step   |-> Plain(<< <<"lastRefreshTimestamp", Some(t)>> >>),
             result |-> "resolved"]
      [] RefreshPath(resp) = "sessionExpired" ->
            [step   |-> Plain(<< <<"error", Some(SessionExpiredMessage)>> >>),
             result |-> "rejected"]
      [] OTHER ->
            [step |-> NoWrites, result |-> "rejected"]

\* refreshToken, lines 123-146
refreshTokenSettle(resp, t) ==
    CASE RefreshPath(resp) = "ok" ->
            [step   |-> Plain(<< <<"lastRefreshTimestamp", Some(t)>> >>),
             result |-> "resolved"]
      [] RefreshPath(resp) = "sessionExpired" ->
            [step   |-> Batch(<< <<"currentUser", None>>,
                                 <<"lastRefreshTimestamp", None>>,
                                 <<"error", Some(SessionExpiredMessage)>> >>),
             result |-> "rejected"]
      [] OTHER ->
            [step |-> NoWrites, result |-> "rejected"]

\* validateCurrentSession, line 161
validateCall == Plain(<< <<"isLoading", TRUE>> >>)

\* validateCurrentSession: the branch taken after the fetch.  The code has one
\* branch for every !response.ok; the label tells a 401/403 from the other
\* error statuses.
ValidatePath(resp) ==
    IF resp.failed THEN "networkError"
    ELSE IF ~Ok(resp)
         THEN IF resp.status = 401 \/ resp.status = 403
              THEN "unauthorized" ELSE "httpError"
    ELSE IF resp.body = "malformed" THEN "malformed"
    ELSE IF resp.body # "wellformed" THEN "invalid"
    ELSE "ok"

\* Faulty variant of validateSettle: the !response.ok return forgets to
\* reset isLoading.
validateSettleStaysLoading(resp, t) ==
    IF ValidatePath(resp) = "ok"
    THEN [step   |-> Batch(<< <<"currentUser", Some(resp.user)>>,
                              <<"lastRefreshTimestamp", Some(t)>>,
                              <<"isLoading", FALSE>> >>),
          result |-> "resolved"]
    ELSE IF ValidatePath(resp) = "httpError"
    THEN [step |-> NoWrites, result |-> "resolved"]
    ELSE [step   |-> Plain(<< <<"isLoading", FALSE>> >>),
          result |-> "resolved"]

\* validateCurrentSession, lines 163-196
validateSettle(resp, t) ==
    IF ValidatePath(resp) = "ok"
    THEN [step   |-> Batch(<< <<"currentUser", Some(resp.user)>>,
                              <<"lastRefreshTimestamp", Some(t)>>,
                              <<"isLoading", FALSE>> >>),
          result |-> "resolved"]
    ELSE [step   |-> Plain(<< <<"isLoading", FALSE>> >>),
          result |-> "resolved"]

\* RegisterUserData: the fields the local validation reads
CompleteData ==
    [username |-> <<"a">>, email |-> <<"a">>, password |-> <<"a">>,
     password2 |-> <<"a">>, first_name |-> <<"a">>, last_name |-> <<"a">>]
\* complete data, data with one field empty, data with another password2
RegisterData ==
    {CompleteData, [CompleteData EXCEPT !.password2 = <<" ", "a">>]}
    \cup {[CompleteData EXCEPT ![f] = <<>>] : f \in DOMAIN CompleteData}

\* register, lines 210-217
RegisterInputValid(data) ==
    /\ data.password = data.password2
    /\ Truthy(data.username) /\ Truthy(data.email) /\ Truthy(data.password)
    /\ Truthy(data.first_name) /\ Truthy(data.last_name)

\* register, lines 219-222
registerCall == Batch(<< <<"error", None>>, <<"isLoading", TRUE>> >>)

\* register, lines 224-260
registerSettle(resp, t) ==
    IF FetchPath(resp) = "ok"
    THEN [step   |-> Batch(<< <<"currentUser", Some(resp.user)>>,
                              <<"lastRefreshTimestamp", Some(t)>>,
                              <<"isLoading", FALSE>>,
                              <<"error", None>> >>),
          result |-> "resolved"]
    ELSE [step   |-> Batch(<< <<"error", Some(ErrorMessage(FetchPath(resp)))>>,
                              <<"isLoading", FALSE>> >>),
          result |-> "rejected"]

\* ------------------------------------------------------------------------
\* The store as a state machine
\* ------------------------------------------------------------------------
Total(f) == f["login"] + f["logout"] + f["refreshToken"]
              + f["validateCurrentSession"] + f["register"] + f["autoRefresh"]

\* user: the user record a completed login resolved with
Event(op, phase, path, result) ==
    [op |-> op, phase |-> phase, path |-> path, result |-> result, user |-> None]

StoreInit ==
    /\ state = createAuthStore
    /\ refreshIntervalId = None
    /\ liveTimers = {}
    /\ effectDisposed = FALSE
    /\ inflight = [c \in Calls |-> 0]
    /\ notified = <<>>
    /\ lastEvent = Event("create", "settled", "ok", "resolved")

\* Apply one step's writes: the signals change, the subscribers are run with
\* the snapshots and the auto-refresh effect (unless disposed) reacts.
Commit(step) ==
    LET tm  == [refreshIntervalId |-> refreshIntervalId, liveTimers |-> liveTimers]
        tm1 == IF effectDisposed THEN tm
               ELSE RunEffect(tm, isAuthenticated(state), Snapshots(state, step))
    IN  /\ state' = ApplyWrites(state, step.writes)
        /\ notified' = Snapshots(state, step)
        /\ refreshIntervalId' = tm1.refreshIntervalId
        /\ liveTimers' = tm1.liveTimers
        /\ Cardinality(tm1.liveTimers) <= MaxLiveTimers
        /\ UNCHANGED besidesStore

Suspend(c) ==
    /\ Total(inflight) < MaxInflight
    /\ inflight' = [inflight EXCEPT ![c] = @ + 1]

Resume(c) ==
    /\ inflight[c] > 0
    /\ inflight' = [inflight EXCEPT ![c] = @ - 1]

\* login(username, password) up to its fetch
LoginCall ==
    /\ \E username \in Strings, password \in Strings :
          IF LoginInputValid(username, password)
          THEN /\ Suspend("login")
               /\ Commit(loginCall)
               /\ lastEvent' = Event("login", "call", "pending", "pending")
          ELSE /\ Commit(NoWrites)
               /\ lastEvent' = Event("login", "settled", "localReject", "rejected")
               /\ UNCHANGED inflight
    /\ UNCHANGED effectDisposed

\* login from the fetch's outcome on
LoginSettle ==
    \E resp \in Responses : \E t \in DateNow(FetchPath(resp) = "ok") :
        /\ Resume("login")
        /\ Commit(loginSettle(resp, t).step)
        /\ lastEvent' = [Event("login", "settled", FetchPath(resp),
                               loginSettle(resp, t).result)
                            EXCEPT !.user = IF FetchPath(resp) = "ok"
                                            THEN Some(resp.user) ELSE None]
        /\ UNCHANGED effectDisposed

LogoutCall ==
    /\ Suspend("logout")
    /\ Commit(logoutCall)
    /\ lastEvent' = Event("logout", "call", "pending", "pending")
    /\ UNCHANGED effectDisposed

LogoutSettle ==
    \E resp \in StatusResponses :
        /\ Resume("logout")
        /\ Commit(logoutSettle(resp).step)
        /\ lastEvent' = Event("logout", "settled", LogoutPath(resp),
                              logoutSettle(resp).result)
        /\ UNCHANGED effectDisposed

\* refreshToken() called by the application
RefreshCall ==
    /\ Suspend("refreshToken")
    /\ Commit(NoWrites)
    /\ lastEvent' = Event("refreshToken", "call", "pending", "pending")
    /\ UNCHANGED effectDisposed

RefreshSettle ==
    \E resp \in StatusResponses : \E t \in DateNow(RefreshPath(resp) = "ok") :
        /\ Resume("refreshToken")
        /\ Commit(refreshTokenSettle(resp, t).step)
        /\ lastEvent' = Event("refreshToken", "settled", RefreshPath(resp),
                              refreshTokenSettle(resp, t).result)
        /\ UNCHANGED effectDisposed

\* index.ts, lines 52-64: a live interval timer fires and its callback calls
\* actions.refreshToken()
TimerTick ==
    /\ liveTimers # {}
    /\ Suspend("autoRefresh")
    /\ Commit(NoWrites)
    /\ lastEvent' = Event("autoRefresh", "call", "pending", "pending")
    /\ UNCHANGED effectDisposed

\* the callback's refreshToken() settles; the callback catches a rejection
TimerRefreshSettle ==
    \E resp \in StatusResponses : \E t \in DateNow(RefreshPath(resp) = "ok") :
        /\ Resume("autoRefresh")
        /\ Commit(refreshTokenSettle(resp, t).step)
        /\ lastEvent' = Event("autoRefresh", "settled", RefreshPath(resp),
                              refreshTokenSettle(resp, t).result)
        /\ UNCHANGED effectDisposed

ValidateCall ==
    /\ Suspend("validateCurrentSession")
    /\ Commit(validateCall)
    /\ lastEvent' = Event("validateCurrentSession", "call", "pending", "pending")
    /\ UNCHANGED effectDisposed

ValidateSettle ==
    \E resp \in Responses : \E t \in DateNow(ValidatePath(resp) = "ok") :
        /\ Resume("validateCurrentSession")
        /\ Commit(validateSettle(resp, t).step)
        /\ lastEvent' = Event("validateCurrentSession", "settled",
                              ValidatePath(resp), validateSettle(resp, t).result)
        /\ UNCHANGED effectDisposed

RegisterCall ==
    /\ \E data \in RegisterData :
          IF RegisterInputValid(data)
          THEN /\ Suspend("register")
               /\ Commit(registerCall)
               /\ lastEvent' = Event("register", "call", "pending", "pending")
          ELSE /\ Commit(NoWrites)
               /\ lastEvent' = Event("register", "settled", "localReject", "rejected")
               /\ UNCHANGED inflight
    /\ UNCHANGED effectDisposed

RegisterSettle ==
    \E resp \in Responses : \E t \in DateNow(FetchPath(resp) = "ok") :
        /\ Resume("register")
        /\ Commit(registerSettle(resp, t).step)
        /\ lastEvent' = Event("register", "settled", FetchPath(resp),
                              registerSettle(resp, t).result)
        /\ UNCHANGED effectDisposed

\* index.ts, lines 82-93
Destroy ==
    LET tm == destroyTimer([refreshIntervalId |-> refreshIntervalId,
                            liveTimers |-> liveTimers])
    IN  /\ refreshIntervalId' = tm.refreshIntervalId
        /\ liveTimers' = tm.liveTimers
        /\ effectDisposed' = TRUE
        /\ notified' = <<>>
        /\ lastEvent' = Event("destroy", "settled",
                              IF effectDisposed THEN "again" ELSE "ok", "resolved")
        /\ UNCHANGED <<state, inflight>>
        /\ UNCHANGED besidesStore

StoreNext ==
    \/ LoginCall \/ LoginSettle
    \/ LogoutCall \/ LogoutSettle
    \/ RefreshCall \/ RefreshSettle
    \/ TimerTick \/ TimerRefreshSettle
    \/ ValidateCall \/ ValidateSettle
    \/ RegisterCall \/ RegisterSettle
    \/ Destroy

\* ------------------------------------------------------------------------
\* Part II.  middleware/auth.ts: the middleware chain
\* ------------------------------------------------------------------------
Roles == {"superadmin", "clinica_admin", "institucion_admin", "profesional",
          "agente_ia", "readonly"}
ClinicaIds == {"c1", "c2"}

\* A header or cookie value is a sequence of pieces; "Bearer " is one piece.
HeaderValues == {<<>>, <<"Bearer ">>, <<"Bearer ", "t1">>, <<"t2">>}
CookieValues == {<<"t3">>}

\* JavaScript truthiness of string | undefined, for a header, cookie or token
Present(o) == o # None /\ TheValue(o) # <<>>
\* the same for an id, written as a TLA+ string
PresentId(o) == o # None /\ TheValue(o) # ""

\* String.prototype.replace(piece, ''): the first occurrence is removed
RECURSIVE RemoveFirst(_, _)
RemoveFirst(str, piece) ==
    IF str = <<>> THEN <<>>
    ELSE IF Head(str) = piece THEN Tail(str)
    ELSE <<Head(str)>> \o RemoveFirst(Tail(str), piece)

\* auth.ts, lines 110-115 and 163-168: header first, cookie as fallback
ExtractCredential(req) ==
    LET fromHeader == IF req.authorization = None THEN None
                      ELSE Some(RemoveFirst(TheValue(req.authorization), "Bearer "))
    IN  IF ~Present(fromHeader) THEN req.cookie ELSE fromHeader

\* What the issuer can answer to validate-token: a JSON body
\* {valid, user?}, an error status, or no answer at all.
ValidationUsers ==
    [id : {None, Some(7)}, role : {"superadmin", "profesional"},
     clinica_id : {None, Some("c1")}]
ValidateAnswers ==
    [kind : {"json"}, status : {200}, valid : BOOLEAN,
     user : {None} \cup {Some(u) : u \in ValidationUsers}]
    \cup [kind : {"status"}, status : ErrorStatuses, valid : {FALSE}, user : {None}]
    \cup [kind : {"network"}, status : {200}, valid : {FALSE}, user : {None}]

\* What the issuer can answer to users/me: the UserDetail (the profile fields
\* the middleware reads), an error status, or no answer at all.
UserDetails == [activo : BOOLEAN, clinica_id : {None} \cup {Some(c) : c \in ClinicaIds},
                role : Roles]
UserAnswers ==
    [kind : {"json"}, status : {200}, user : UserDetails]
    \cup [kind : {"status"}, status : ErrorStatuses,
          user : {CHOOSE u \in UserDetails : TRUE}]
    \cup [kind : {"network"}, status : {200},
          user : {CHOOSE u \in UserDetails : TRUE}]

\* django-auth.ts, DjangoAuthClient.request: the status of the HTTPException
\* it throws, or None when it returns the JSON body.
djangoRequestThrows(ans) ==
    IF ans.kind = "json" THEN None
    ELSE IF ans.kind = "status" THEN Some(ans.status)
    ELSE Some(500)

emptyContext ==
    [userId |-> None, userRole |-> None, clinicaId |-> None, accessToken |-> None,
     userName |-> None, currentUser |-> None]

\* What a middleware does with the request: reject it with a status, or
\* (status None) call next() with the context c.
Reject(status, c) == [status |-> Some(status), ctx |-> c]
CallNext(c) == [status |-> None, ctx |-> c]

\* x || '' for a nullable string
OrEmpty(o) == IF PresentId(o) THEN TheValue(o) ELSE ""
\* x || undefined for a nullable string
OrUndefined(o) == IF PresentId(o) THEN o ELSE None

\* c.set of lines 135-140 and 177-180
AttachValidated(c, user, token) ==
    [c EXCEPT !.userId = user.id,
              !.userRole = Some(user.role),
              !.clinicaId = Some(OrEmpty(user.clinica_id)),
              !.accessToken = token]

\* djangoAuthMiddleware, lines 117-121: reject before any call to the issuer
djangoAuthRejectsEarly(req) == ~Present(ExtractCredential(req))

\* Faulty variant of djangoAuthResume: validation.valid is not read.
djangoAuthResumeIgnoresValid(ans, token, c) ==
    IF djangoRequestThrows(ans) # None
    THEN Reject(TheValue(djangoRequestThrows(ans)), c)
    ELSE IF ans.user = None
    THEN Reject(401, c)
    ELSE IF TheValue(ans.user).id = None
    THEN Reject(401, c)
    ELSE CallNext(AttachValidated(c, TheValue(ans.user), token))

\* djangoAuthMiddleware, lines 126-152, from the issuer's answer on
djangoAuthResume(ans, token, c) ==
    IF djangoRequestThrows(ans) # None
    THEN Reject(TheValue(djangoRequestThrows(ans)), c)
    ELSE IF ~ans.valid \/ ans.user = None
    THEN Reject(401, c)
    ELSE IF TheValue(ans.user).id = None
    THEN Reject(401, c)
    ELSE CallNext(AttachValidated(c, TheValue(ans.user), token))

\* optionalDjangoAuthMiddleware, lines 170-187, from the issuer's answer on
optionalDjangoAuthResume(ans, token, c) ==
    IF djangoRequestThrows(ans) # None
    THEN CallNext(c)
    ELSE IF ans.valid /\ ans.user # None
    THEN IF TheValue(ans.user).id = None
         THEN CallNext(c)
         ELSE CallNext(AttachValidated(c, TheValue(ans.user), token))
    ELSE CallNext(c)

\* Faulty variant of clinicContextRejectsEarly: the accessToken check is
\* missing.
clinicContextNeverRejectsEarly(c) == FALSE

\* djangoClinicContextMiddleware, lines 199-205
clinicContextRejectsEarly(c) == ~Present(c.accessToken)

\* Faulty variant of clinicContextAccepts: no exemption for superadmin.
clinicContextAcceptsNoExemption(user) ==
    user.activo /\ PresentId(user.clinica_id)

\* djangoClinicContextMiddleware, lines 212-219: the account may proceed
clinicContextAccepts(user) ==
    /\ user.activo
    /\ ~(~PresentId(user.clinica_id) /\ user.role # "superadmin")

\* djangoClinicContextMiddleware, lines 209-239, from the issuer's answer on
clinicContextResume(ans, c) ==
    IF djangoRequestThrows(ans) # None
    THEN Reject(TheValue(djangoRequestThrows(ans)), c)
    ELSE IF ~clinicContextAccepts(ans.user)
    THEN Reject(403, c)
    ELSE CallNext([c EXCEPT !.clinicaId = OrUndefined(ans.user.clinica_id),
                            !.userRole = Some(ans.user.role),
                            !.userName = Some("first last"),
                            !.currentUser = Some(ans.user)])

\* ------------------------------------------------------------------------
\* routes: the tenant-scoped handlers
\* ------------------------------------------------------------------------
\* A JavaScript object is a function from its keys to values.
\* { ...a, ...b }
Spread(a, b) ==
    [k \in DOMAIN a \cup DOMAIN b |-> IF k \in DOMAIN b THEN b[k] ELSE a[k]]
\* z.object(...).parse: keys the schema does not name are stripped
ZodStrip(obj, keys) == [k \in DOMAIN obj \cap keys |-> obj[k]]
\* JSON.stringify drops the keys whose value is undefined
JsonStringify(obj) == [k \in {x \in DOMAIN obj : obj[x] # None} |-> obj[k]]
\* obj.clinica_id
ClinicaOf(obj) == IF "clinica_id" \in DOMAIN obj THEN obj["clinica_id"] ELSE None

\* dashboardQuerySchema, lines 25-35 (every key is optional)
dashboardQueryKeys == {"period", "start_date", "end_date", "institucion_id",
                       "limit", "offset"}
\* createStudentSchema, lines 446-456 and 593-603
createStudentKeys == {"institucion_id", "rut", "nombre", "apellido_paterno",
                      "apellido_materno", "fecha_nacimiento", "edad", "curso",
                      "genero"}
createStudentRequired == createStudentKeys \ {"apellido_materno", "genero"}

\* Query strings a client may send to GET /api/dashboard/api
Queries ==
    {[period |-> Some("this_month")],
     [period |-> Some("this_month"), clinica_id |-> Some("c2")],
     [period |-> Some("this_month"), institucion_id |-> Some("i1")]}

StudentFields ==
    [institucion_id |-> Some("i1"), rut |-> Some("r"), nombre |-> Some("n"),
     apellido_paterno |-> Some("a"), fecha_nacimiento |-> Some("f"),
     edad |-> Some("e"), curso |-> Some("k")]
\* JSON bodies a client may send to POST /api/students: a student, a student
\* with a clinica_id of the client's choosing, a body that fails the schema
JsonBodies ==
    {StudentFields}
    \cup {Spread(StudentFields, [clinica_id |-> Some(c)]) : c \in ClinicaIds}
    \cup {[clinica_id |-> Some("c2")]}

\* zValidator('json', createStudentSchema) accepts the body
createStudentValid(body) == createStudentRequired \subseteq DOMAIN body

\* obj.institucion_id
InstitucionOf(obj) ==
    IF "institucion_id" \in DOMAIN obj THEN obj["institucion_id"] ELSE None

\* A call to the data service: the operation, the tenant id it carries and
\* the institution it names.
DataCall(service, clinica, institucion) ==
    [service |-> service, clinica_id |-> clinica, institucion_id |-> institucion]

\* dashboard.tsx, GET /api, lines 107-147.  ok: the data service answered.
\* The result is [status, calls].
dashboardApi(c, query, ok) ==
    LET clinicaId == c.clinicaId
        valid     == ZodStrip(query, dashboardQueryKeys)
    IN  IF ~PresentId(clinicaId)
        THEN [status |-> 403, calls |-> <<>>]
        ELSE [status |-> IF ok THEN 200 ELSE 500,
              calls  |-> <<DataCall("getDashboardData", clinicaId,
                                    InstitucionOf(valid))>>]

\* The data service function each of the other dashboard handlers calls:
\* GET / (lines 52-101), /stats (153-190), /trends (196-233),
\* /completions (239-276), /activity (282-325), /export (331-385)
dashboardService(ro) ==
    CASE ro = "GET /api/dashboard" -> "getDashboardData"
      [] ro = "GET /api/dashboard/stats" -> "getDashboardStats"
      [] ro = "GET /api/dashboard/trends" -> "getSubmissionTrends"
      [] ro = "GET /api/dashboard/completions" -> "getSurveyCompletions"
      [] ro = "GET /api/dashboard/activity" -> "getRecentActivity"
      [] ro = "GET /api/dashboard/export" -> "getDashboardData"

\* Faulty variant of dashboardHandler: the clinicaId check is missing.
dashboardHandlerUnguarded(ro, c, query, ok) ==
    [status |-> IF ok THEN 200 ELSE 500,
     calls  |-> <<DataCall(dashboardService(ro), c.clinicaId, None)>>]

\* Each of these handlers answers 403 when the context holds no clinicaId
\* and otherwise makes its one call for that clinic; GET / and /activity
\* pass the query's institucion_id on.
dashboardHandler(ro, c, query, ok) ==
    LET clinicaId == c.clinicaId
        valid     == ZodStrip(query, dashboardQueryKeys)
    IN  IF ~PresentId(clinicaId)
        THEN [status |-> 403, calls |-> <<>>]
        ELSE [status |-> IF ok THEN 200 ELSE 500,
              calls  |-> <<DataCall(dashboardService(ro), clinicaId,
                               IF ro \in {"GET /api/dashboard",
                                          "GET /api/dashboard/activity"}
                               THEN InstitucionOf(valid) ELSE None)>>]

\* dashboard.tsx, POST /api/students (Django), lines 515-533
studentsPost(c, body, ok) ==
    LET clinicaId   == c.clinicaId
        studentData == ZodStrip(body, createStudentKeys)
        sent        == JsonStringify(Spread(studentData, [clinica_id |-> clinicaId]))
    IN  IF ~createStudentValid(body)
        THEN [status |-> 400, calls |-> <<>>]
        ELSE [status |-> IF ok THEN 201 ELSE 500,
              calls  |-> <<DataCall("createStudent", ClinicaOf(sent),
                                    InstitucionOf(sent))>>]

\* Faulty variant of studentsPostSupabase: the row is built from the body
\* as sent instead of the validated one.
studentsPostSupabaseRawBody(c, body, institution, ok) ==
    LET clinicaId == c.clinicaId
        row       == Spread([clinica_id |-> clinicaId], body)
    IN  IF ~createStudentValid(body)
        THEN [status |-> 400, calls |-> <<>>]
        ELSE IF institution = None \/ institution # clinicaId
        THEN [status |-> 403, calls |-> <<>>]
        ELSE [status |-> IF ok THEN 201 ELSE 500,
              calls  |-> <<DataCall("insert alumno", ClinicaOf(row),
                                    InstitucionOf(row))>>]

\* dashboard.tsx, POST /api/students (Supabase), lines 670-706.
\* institution: the clinica_id of the institution row, None when no row.
studentsPostSupabase(c, body, institution, ok) ==
    LET clinicaId   == c.clinicaId
        studentData == ZodStrip(body, createStudentKeys)
        row         == Spread([clinica_id |-> clinicaId], studentData)
    IN  IF ~createStudentValid(body)
        THEN [status |-> 400, calls |-> <<>>]
        ELSE IF institution = None \/ institution # clinicaId
        THEN [status |-> 403, calls |-> <<>>]
        ELSE [status |-> IF ok THEN 201 ELSE 500,
              calls  |-> <<DataCall("insert alumno", ClinicaOf(row),
                                    InstitucionOf(row))>>]

\* ------------------------------------------------------------------------
\* A request through the chain, as a state machine
\* ------------------------------------------------------------------------
\* index.tsx, lines 367-370 registers <<djangoAuthMiddleware,
\* djangoClinicContextMiddleware>>; the other chains are the ones obtained by
\* removing Stage A or by putting its optional variant in its place.
Chains ==
    {<<"djangoAuthMiddleware", "djangoClinicContextMiddleware">>,
     <<"optionalDjangoAuthMiddleware", "djangoClinicContextMiddleware">>,
     <<"djangoClinicContextMiddleware">>,
     <<"djangoAuthMiddleware">>}
DashboardRoutes ==
    {"GET /api/dashboard", "GET /api/dashboard/api", "GET /api/dashboard/stats",
     "GET /api/dashboard/trends", "GET /api/dashboard/completions",
     "GET /api/dashboard/activity", "GET /api/dashboard/export"}
Routes == DashboardRoutes \cup {"POST /api/students",
                                "POST /api/students (supabase)"}

Requests ==
    [authorization : {None} \cup {Some(h) : h \in HeaderValues},
     cookie : {None} \cup {Some(v) : v \in CookieValues},
     query : Queries, body : JsonBodies]

ChainInit ==
    /\ chain = <<"djangoAuthMiddleware", "djangoClinicContextMiddleware">>
    /\ route = "GET /api/dashboard/api"
    /\ request = CHOOSE r \in Requests : r.authorization = None /\ r.cookie = None
    /\ ctx = emptyContext
    /\ pc = "idle"
    /\ pos = 0
    /\ accessToken = None
    /\ issuerCalls = <<>>
    /\ dataCalls = <<>>
    /\ response = None

\* A request arrives: a fresh context, the first middleware is next.  The
\* context is per request and nothing is kept between requests, so one
\* request is followed from its arrival to its answer.
Receive ==
    /\ pc = "idle"
    /\ \E ch \in Chains, ro \in Routes, req \in Requests :
          /\ chain' = ch
          /\ route' = ro
          /\ request' = req
    /\ ctx' = emptyContext
    /\ pc' = "middleware"
    /\ pos' = 1
    /\ accessToken' = None
    /\ issuerCalls' = <<>>
    /\ dataCalls' = <<>>
    /\ response' = None
    /\ UNCHANGED besidesChain

\* The middleware at pos is done: it rejected, or it called next().
Continue(out) ==
    /\ ctx' = out.ctx
    /\ accessToken' = None
    /\ IF out.status # None
       THEN /\ response' = out.status
            /\ pc' = "done"
            /\ pos' = pos
       ELSE /\ response' = None
            /\ pos' = pos + 1
            /\ pc' = IF pos + 1 > Len(chain) THEN "handler" ELSE "middleware"

\* A call to the issuer: the operation, the bearer token sent and, once the
\* issuer has answered, the answer.
IssuerCall(op, token) == [op |-> op, token |-> token, answer |-> None]
Answered(calls, ans) == [calls EXCEPT ![Len(calls)].answer = Some(ans)]

\* djangoAuthMiddleware up to its await
AuthCall ==
    /\ pc = "middleware" /\ chain[pos] = "djangoAuthMiddleware"
    /\ IF djangoAuthRejectsEarly(request)
       THEN /\ Continue(Reject(401, ctx))
            /\ UNCHANGED issuerCalls
       ELSE /\ accessToken' = ExtractCredential(request)
            /\ issuerCalls' = Append(issuerCalls,
                   IssuerCall("validateToken", ExtractCredential(request)))
            /\ pc' = "awaitValidate"
            /\ UNCHANGED <<ctx, pos, response>>
    /\ UNCHANGED <<chain, route, request, dataCalls>>
    /\ UNCHANGED besidesChain

AuthReturn ==
    /\ pc = "awaitValidate" /\ chain[pos] = "djangoAuthMiddleware"
    /\ \E ans \in ValidateAnswers :
          /\ Continue(djangoAuthResume(ans, accessToken, ctx))
          /\ issuerCalls' = Answered(issuerCalls, ans)
    /\ UNCHANGED <<chain, route, request, dataCalls>>
    /\ UNCHANGED besidesChain

\* optionalDjangoAuthMiddleware up to its await
OptionalAuthCall ==
    /\ pc = "middleware" /\ chain[pos] = "optionalDjangoAuthMiddleware"
    /\ IF ~Present(ExtractCredential(request))
       THEN /\ Continue(CallNext(ctx))
            /\ UNCHANGED issuerCalls
       ELSE /\ accessToken' = ExtractCredential(request)
            /\ issuerCalls' = Append(issuerCalls,
                   IssuerCall("validateToken", ExtractCredential(request)))
            /\ pc' = "awaitValidate"
            /\ UNCHANGED <<ctx, pos, response>>
    /\ UNCHANGED <<chain, route, request, dataCalls>>
    /\ UNCHANGED besidesChain

OptionalAuthReturn ==
    /\ pc = "awaitValidate" /\ chain[pos] = "optionalDjangoAuthMiddleware"
    /\ \E ans \in ValidateAnswers :
          /\ Continue(optionalDjangoAuthResume(ans, accessToken, ctx))
          /\ issuerCalls' = Answered(issuerCalls, ans)
    /\ UNCHANGED <<chain, route, request, dataCalls>>
    /\ UNCHANGED besidesChain

\* djangoClinicContextMiddleware up to its await
ClinicContextCall ==
    /\ pc = "middleware" /\ chain[pos] = "djangoClinicContextMiddleware"
    /\ IF clinicContextRejectsEarly(ctx)
       THEN /\ Continue(Reject(401, ctx))
            /\ UNCHANGED issuerCalls
       ELSE /\ accessToken' = ctx.accessToken
            /\ issuerCalls' = Append(issuerCalls,
                   IssuerCall("getCurrentUser", ctx.accessToken))
            /\ pc' = "awaitUser"
            /\ UNCHANGED <<ctx, pos, response>>
    /\ UNCHANGED <<chain, route, request, dataCalls>>
    /\ UNCHANGED besidesChain

ClinicContextReturn ==
    /\ pc = "awaitUser"
    /\ \E ans \in UserAnswers :
          /\ Continue(clinicContextResume(ans, ctx))
          /\ issuerCalls' = Answered(issuerCalls, ans)
    /\ UNCHANGED <<chain, route, request, dataCalls>>
    /\ UNCHANGED besidesChain

\* The route's handler runs and answers the request.
Handle(out) ==
    /\ pc' = "done"
    /\ response' = Some(out.status)
    /\ dataCalls' = out.calls
    /\ UNCHANGED <<chain, route, request, ctx, pos, accessToken, issuerCalls>>
    /\ UNCHANGED besidesChain

DashboardApi ==
    /\ pc = "handler" /\ route = "GET /api/dashboard/api"
    /\ \E ok \in BOOLEAN : Handle(dashboardApi(ctx, request.query, ok))

DashboardHandler ==
    /\ pc = "handler" /\ route \in DashboardRoutes \ {"GET /api/dashboard/api"}
    /\ \E ok \in BOOLEAN : Handle(dashboardHandler(route, ctx, request.query, ok))

StudentsPost ==
    /\ pc = "handler" /\ route = "POST /api/students"
    /\ \E ok \in BOOLEAN : Handle(studentsPost(ctx, request.body, ok))

StudentsPostSupabase ==
    /\ pc = "handler" /\ route = "POST /api/students (supabase)"
    /\ \E ok \in BOOLEAN, institution \in {None} \cup {Some(c) : c \in ClinicaIds} :
          Handle(studentsPostSupabase(ctx, request.body, institution, ok))

ChainNext ==
    \/ Receive
    \/ AuthCall \/ AuthReturn
    \/ OptionalAuthCall \/ OptionalAuthReturn
    \/ ClinicContextCall \/ ClinicContextReturn
    \/ DashboardApi \/ StudentsPost \/ StudentsPostSupabase
    \/ DashboardHandler

\* ------------------------------------------------------------------------
\* Part III.  routes: the auth routes and the cookies they set
\* ------------------------------------------------------------------------
\* setAuthCookies: maxAge of access_token and of refresh_token, in seconds
AccessMaxAge == 3600
RefreshMaxAge == 86400
\* POST /refresh: maxAge of the access_token cookie it sets
RefreshedAccessMaxAge == 3600

CookieNames == {"access_token", "refresh_token"}
\* The steps the clock is advanced by, in seconds.
Advances == {1800, 3600, 82800}

\* setCookie(c, name, value, {maxAge}): the browser stores the cookie until
\* maxAge seconds from now
setCookie(j, name, maxAge, now) == [j EXCEPT ![name] = Some(now + maxAge)]
\* deleteCookie(c, name): the browser drops the cookie
deleteCookie(j, name) == [j EXCEPT ![name] = None]

\* dashboard.tsx, lines 845-863
setAuthCookies(j, now) ==
    setCookie(setCookie(j, "access_token", AccessMaxAge, now),
              "refresh_token", RefreshMaxAge, now)

\* dashboard.tsx, lines 868-871
clearAuthCookies(j) == deleteCookie(deleteCookie(j, "access_token"), "refresh_token")

\* The browser drops a cookie once its max-age has passed.
Expire(j, now) ==
    [n \in DOMAIN j |-> IF j[n] # None /\ TheValue(j[n]) <= now THEN None ELSE j[n]]

\* POST /login, lines 879-904.  accepted: the body passed loginSchema and the
\* issuer returned tokens; otherwise the route throws before any setCookie.
authLogin(j, now, accepted) == IF accepted THEN setAuthCookies(j, now) ELSE j

\* POST /register, lines 910-933
authRegister(j, now, accepted) == IF accepted THEN setAuthCookies(j, now) ELSE j

\* POST /refresh, lines 939-965.  The refresh token is read from the JSON
\* body; accepted: the issuer returned a new access token for it.
authRefresh(j, now, accepted) ==
    IF accepted THEN setCookie(j, "access_token", RefreshedAccessMaxAge, now) ELSE j

\* POST /logout, lines 971-977
authLogout(j) == clearAuthCookies(j)

CookieInit ==
    /\ jar = [n \in CookieNames |-> None]
    /\ clock = 0

\* A route answered: the browser applies the Set-Cookie headers.
Answer(j) ==
    /\ jar' = j
    /\ UNCHANGED clock
    /\ UNCHANGED besidesCookies

AuthLogin == \E accepted \in BOOLEAN : Answer(authLogin(jar, clock, accepted))

AuthRegister == \E accepted \in BOOLEAN : Answer(authRegister(jar, clock, accepted))

AuthRefresh == \E accepted \in BOOLEAN : Answer(authRefresh(jar, clock, accepted))

AuthLogout == Answer(authLogout(jar))

\* Time passes and the cookies whose max-age has passed are gone.
CookieTick ==
    \E d \in Advances :
        /\ clock + d <= MaxClock
        /\ clock' = clock + d
        /\ jar' = Expire(jar, clock + d)
        /\ UNCHANGED besidesCookies

CookieNext ==
    \/ AuthLogin \/ AuthRegister \/ AuthRefresh \/ AuthLogout
    \/ CookieTick

\* ------------------------------------------------------------------------
\* Part IV.  Pure functions: the token codec and the role table
\* ------------------------------------------------------------------------
\* types.ts, lines 200-263
ROLE_PERMISSIONS ==
    [superadmin |->
        {"clinicas:read", "clinicas:write", "clinicas:delete",
         "instituciones:read", "instituciones:write", "instituciones:delete",
         "alumnos:read", "alumnos:write", "alumnos:delete",
         "apoderados:read", "apoderados:write", "apoderados:delete",
         "encuestas:read", "encuestas:write", "encuestas:delete",
         "evaluaciones:read", "evaluaciones:write", "evaluaciones:delete",
         "llamadas:read", "llamadas:write", "llamadas:delete",
         "informes:read", "informes:write", "informes:delete",
         "usuarios:read", "usuarios:write", "usuarios:delete",
         "configuracion:read", "configuracion:write",
         "sensitive_data:view", "sensitive_data:export"},
     clinica_admin |->
        {"clinicas:read",
         "instituciones:read", "instituciones:write", "instituciones:delete",
         "alumnos:read", "alumnos:write", "alumnos:delete",
         "apoderados:read", "apoderados:write", "apoderados:delete",
         "encuestas:read", "encuestas:write", "encuestas:delete",
         "evaluaciones:read", "evaluaciones:write", "evaluaciones:delete",
         "llamadas:read", "llamadas:write", "llamadas:delete",
         "informes:read", "informes:write", "informes:delete",
         "usuarios:read", "usuarios:write",
         "configuracion:read", "configuracion:write",
         "sensitive_data:view"},
     institucion_admin |->
        {"instituciones:read",
         "alumnos:read", "alumnos:write", "alumnos:delete",
         "apoderados:read", "apoderados:write", "apoderados:delete",
         "encuestas:read", "encuestas:write",
         "evaluaciones:read", "evaluaciones:write",
         "llamadas:read",
         "informes:read", "informes:write",
         "usuarios:read"},
     profesional |->
        {"alumnos:read", "apoderados:read",
         "encuestas:read", "encuestas:write",
         "evaluaciones:read", "evaluaciones:write",
         "llamadas:read",
         "informes:read", "informes:write"},
     agente_ia |->
        {"alumnos:read", "apoderados:read", "encuestas:read",
         "llamadas:read", "llamadas:write"},
     readonly |->
        {"alumnos:read", "encuestas:read", "evaluaciones:read", "informes:read"}]

\* types.ts, lines 268-271.  role: UserProfile['role'] | null
getRolePermissions(role) ==
    IF role = None THEN {} ELSE ROLE_PERMISSIONS[TheValue(role)]

\* Faulty variant of hasPermission: a null role is looked up as superadmin.
hasPermissionNullIsSuperadmin(role, permission) ==
    IF role = None THEN permission \in ROLE_PERMISSIONS["superadmin"]
    ELSE permission \in ROLE_PERMISSIONS[TheValue(role)]

\* types.ts, lines 276-282
hasPermission(role, permission) ==
    IF role = None THEN FALSE ELSE permission \in ROLE_PERMISSIONS[TheValue(role)]

\* store.ts, lines 61-63: computed userRole
userRole(s) ==
    IF s.currentUser = None THEN None ELSE Some(TheValue(s.currentUser).role)

\* store.ts, lines 88-91: computed permissions
permissions(s) == getRolePermissions(userRole(s))

\* token-refresh.ts, line 8, in milliseconds
REFRESH_BUFFER == 5 * 60 * 1000

\* A token is the sequence of its '.'-separated segments.  A segment is
\* described by how far the decoding of lines 18-25 gets with it:
\*   enc "garbage"          atob throws
\*   text "badutf8"         decodeURIComponent throws
\*   text "notjson"         JSON.parse throws
\*   text "null", "number"  JSON.parse returns null, a number
\*   text "object"          JSON.parse returns an object; exp is its exp claim
Exps == {0, 400, 1000}
Segment(enc, text, exp) == [enc |-> enc, text |-> text, exp |-> exp]
Segments ==
    {Segment("garbage", "none", None)}
    \cup {Segment("base64", t, None) :
              t \in {"badutf8", "notjson", "null", "number", "object"}}
    \cup {Segment("base64", "object", Some(e)) : e \in Exps}
Filler == Segment("base64", "object", None)
\* no dot, one dot, two dots
Tokens ==
    {<<Filler>>} \cup {<<Filler, seg>> : seg \in Segments}
    \cup {<<Filler, seg, Filler>> : seg \in Segments}

\* Date.now() at the call, in milliseconds: around each expiry and around the
\* start of its buffer
Offsets == {0 - REFRESH_BUFFER - 1, 0 - REFRESH_BUFFER, 1 - REFRESH_BUFFER, 0 - 1, 0, 1}
Nows == {n \in {e * 1000 + d : e \in Exps, d \in Offsets} : n >= 0}

\* JavaScript values a claims variable can hold
JsNull == [type |-> "null", exp |-> None]
JsNumber == [type |-> "number", exp |-> None]
JsObject(exp) == [type |-> "object", exp |-> exp]
EmptyClaims == JsObject(None)

\* What a call did: it returned a value or it threw.
Returned(v) == [threw |-> FALSE, value |-> v]
Threw == [threw |-> TRUE, value |-> "TypeError"]

\* JSON.parse(text), for a text that parses
JsonParse(seg) ==
    CASE seg.text = "null"   -> JsNull
      [] seg.text = "number" -> JsNumber
      [] seg.text = "object" -> JsObject(seg.exp)

\* parseJWT, lines 15-29: everything inside try; the catch returns {}
parseJWT(token) ==
    IF Len(token) < 2 THEN EmptyClaims
    ELSE LET base64Url == token[2]
         IN  IF base64Url.enc = "garbage" THEN EmptyClaims
             ELSE IF base64Url.text \in {"badutf8", "notjson"} THEN EmptyClaims
             ELSE JsonParse(base64Url)

\* !claims.exp for a non-null claims value
NoExp(claims) == claims.exp = None \/ TheValue(claims.exp) = 0

\* shouldRefreshToken, lines 35-47.  Reading a property of null throws.
shouldRefreshToken(token, now) ==
    LET claims == parseJWT(token)
    IN  IF claims.type = "null" THEN Threw
        ELSE IF NoExp(claims) THEN Returned(TRUE)
        ELSE Returned(TheValue(claims.exp) * 1000 - now < REFRESH_BUFFER)

\* getTokenExpiryTime, lines 115-127
getTokenExpiryTime(token, now) ==
    LET claims == parseJWT(token)
    IN  IF claims.type = "null" THEN Threw
        ELSE IF NoExp(claims) THEN Returned(0)
        ELSE LET timeUntilExpiry == TheValue(claims.exp) * 1000 - now
             IN  Returned((IF timeUntilExpiry > 0 THEN timeUntilExpiry ELSE 0) \div 1000)

\* isTokenExpired, lines 132-143
isTokenExpired(token, now) ==
    LET claims == parseJWT(token)
    IN  IF claims.type = "null" THEN Threw
        ELSE IF NoExp(claims) THEN Returned(TRUE)
        ELSE Returned(now >= TheValue(claims.exp) * 1000)

\* The arguments the role functions are called with
RoleArgs == {None} \cup {Some(r) : r \in Roles}
AllPermissions == UNION {ROLE_PERMISSIONS[r] : r \in DOMAIN ROLE_PERMISSIONS}
PermissionArgs == AllPermissions \cup {"unknown:permission"}
\* table[key] is defined
HasOwn(table, role) == role = None \/ TheValue(role) \in DOMAIN table

\* A call: the function, its arguments (the ones it does not take keep their
\* default) and its result.
NoCall ==
    [fn |-> "none", token |-> <<>>, now |-> 0, role |-> None, permission |-> "",
     defined |-> TRUE, result |-> Returned(FALSE)]

UtilInit == call = NoCall

ParseJWT ==
    /\ \E token \in Tokens :
           call' = [NoCall EXCEPT !.fn = "parseJWT", !.token = token,
                                  !.result = Returned(parseJWT(token))]
    /\ UNCHANGED besidesUtils

ShouldRefreshToken ==
    /\ \E token \in Tokens, now \in Nows :
           call' = [NoCall EXCEPT !.fn = "shouldRefreshToken", !.token = token,
                                  !.now = now,
                                  !.result = shouldRefreshToken(token, now)]
    /\ UNCHANGED besidesUtils

GetTokenExpiryTime ==
    /\ \E token \in Tokens, now \in Nows :
           call' = [NoCall EXCEPT !.fn = "getTokenExpiryTime", !.token = token,
                                  !.now = now,
                                  !.result = getTokenExpiryTime(token, now)]
    /\ UNCHANGED besidesUtils

IsTokenExpired ==
    /\ \E token \in Tokens, now \in Nows :
           call' = [NoCall EXCEPT !.fn = "isTokenExpired", !.token = token,
                                  !.now = now,
                                  !.result = isTokenExpired(token, now)]
    /\ UNCHANGED besidesUtils

\* ROLE_PERMISSIONS[role] of a role the table lacks is undefined
GetRolePermissions ==
    /\ \E role \in RoleArgs :
           call' = [NoCall EXCEPT !.fn = "getRolePermissions", !.role = role,
                                  !.defined = HasOwn(ROLE_PERMISSIONS, role),
                                  !.result = IF HasOwn(ROLE_PERMISSIONS, role)
                                             THEN Returned(getRolePermissions(role))
                                             ELSE Returned({})]
    /\ UNCHANGED besidesUtils

\* ROLE_PERMISSIONS[role].has of a role the table lacks throws
HasPermission ==
    /\ \E role \in RoleArgs, permission \in PermissionArgs :
           call' = [NoCall EXCEPT !.fn = "hasPermission", !.role = role,
                                  !.permission = permission,
                                  !.defined = HasOwn(ROLE_PERMISSIONS, role),
                                  !.result = IF HasOwn(ROLE_PERMISSIONS, role)
                                             THEN Returned(hasPermission(role, permission))
                                             ELSE Threw]
    /\ UNCHANGED besidesUtils

UtilNext ==
    \/ ParseJWT \/ ShouldRefreshToken \/ GetTokenExpiryTime \/ IsTokenExpired
    \/ GetRolePermissions \/ HasPermission

\* ------------------------------------------------------------------------
\* Part V.  AuthService, TokenStorage and setupTokenRefresh
\* ------------------------------------------------------------------------
\* The model covers login, register, logout and the refresh scheduler of one
\* page; getCurrentUser and AuthenticatedClient are not part of it.
MaxIntervals == 3
MaxTicks == 1
MaxServiceCalls == 1

IntervalIds == 1..MaxIntervals
ServiceMethods == {"login", "register", "logout"}

\* The access tokens the server issues, and the refresh token
IssuedAccess ==
    {<<Filler, Segment("base64", "object", Some(e)), Filler>> : e \in {400, 1000}}
IssuedRefresh == {"refresh"}
\* Date.now() at a tick
TickNows == {0, 100001, 700001}

\* An empty localStorage
EmptyStorage == [access_token |-> None, refresh_token |-> None, user |-> None]

\* TokenStorage.clear
tokenStorageClear(st) ==
    [st EXCEPT !.access_token = None, !.refresh_token = None, !.user = None]

\* What login and register store from a 2xx response
storeSession(st, access, refresh, user) ==
    [st EXCEPT !.access_token = Some(access), !.refresh_token = Some(refresh),
               !.user = Some(user)]

\* The cleanup function setupTokenRefresh returned: clearInterval(intervalId)
cleanup(live, held) == clearInterval(live, held)

ServiceInit ==
    /\ storage = EmptyStorage
    /\ cleanupTokenRefresh = None
    /\ intervals = {}
    /\ nextIntervalId = 1
    /\ tickInflight = [i \in IntervalIds |-> 0]
    /\ serviceInflight = [m \in ServiceMethods |-> 0]
    /\ location = "/"

\* A method runs up to its await fetch(...)
ServiceSuspend(method) ==
    /\ serviceInflight[method] < MaxServiceCalls
    /\ serviceInflight' = [serviceInflight EXCEPT ![method] = @ + 1]

ServiceResume(method) ==
    /\ serviceInflight[method] > 0
    /\ serviceInflight' = [serviceInflight EXCEPT ![method] = @ - 1]

\* AuthService.setupAutoRefresh: setupTokenRefresh starts an interval and the
\* cleanup function it returns replaces the one the service held.
setupAutoRefresh ==
    /\ nextIntervalId <= MaxIntervals
    /\ intervals' = intervals \cup {nextIntervalId}
    /\ cleanupTokenRefresh' = Some(nextIntervalId)
    /\ nextIntervalId' = nextIntervalId + 1

\* The response arrives: tokens and user are stored and the scheduler is set
\* up on 2xx; otherwise the method throws. A rejected fetch throws as well.
sessionSettle(method) ==
    /\ ServiceResume(method)
    /\ \/ /\ \E access \in IssuedAccess, refresh \in IssuedRefresh, user \in UserIds :
                  storage' = storeSession(storage, access, refresh, user)
          /\ setupAutoRefresh
       \/ UNCHANGED <<storage, cleanupTokenRefresh, intervals, nextIntervalId>>
    /\ UNCHANGED <<tickInflight, location>>

\* AuthService.login up to its fetch
AuthServiceLogin ==
    /\ ServiceSuspend("login")
    /\ UNCHANGED <<storage, cleanupTokenRefresh, intervals, nextIntervalId,
                   tickInflight, location>>
    /\ UNCHANGED besidesService

AuthServiceLoginSettle ==
    /\ sessionSettle("login")
    /\ UNCHANGED besidesService

\* AuthService.register up to its fetch
AuthServiceRegister ==
    /\ ServiceSuspend("register")
    /\ UNCHANGED <<storage, cleanupTokenRefresh, intervals, nextIntervalId,
                   tickInflight, location>>
    /\ UNCHANGED besidesService

AuthServiceRegisterSettle ==
    /\ sessionSettle("register")
    /\ UNCHANGED besidesService

\* AuthService.logout up to its fetch: the held cleanup function is called
\* (and stays held).
logoutBegin ==
    /\ ServiceSuspend("logout")
    /\ intervals' = cleanup(intervals, cleanupTokenRefresh)
    /\ UNCHANGED <<storage, cleanupTokenRefresh, nextIntervalId, tickInflight>>

AuthServiceLogout ==
    /\ logoutBegin
    /\ UNCHANGED location
    /\ UNCHANGED besidesService

\* The logout request completes: the storage is cleared once fetch resolves,
\* whatever the status; a rejected fetch leaves it as it is.
AuthServiceLogoutSettle ==
    /\ ServiceResume("logout")
    /\ \/ storage' = tokenStorageClear(storage)
       \/ UNCHANGED storage
    /\ UNCHANGED <<cleanupTokenRefresh, intervals, nextIntervalId, tickInflight,
                   location>>
    /\ UNCHANGED besidesService

\* The callback of a live interval runs: it returns when a token is missing
\* or the access token is not due, and suspends at refreshAccessToken when
\* it is.
RefreshTick ==
    /\ \E i \in intervals, now \in TickNows :
          IF /\ storage.access_token # None
             /\ storage.refresh_token # None
             /\ shouldRefreshToken(TheValue(storage.access_token), now) = Returned(TRUE)
          THEN /\ tickInflight[i] < MaxTicks
               /\ tickInflight' = [tickInflight EXCEPT ![i] = @ + 1]
          ELSE UNCHANGED tickInflight
    /\ UNCHANGED <<storage, cleanupTokenRefresh, intervals, nextIntervalId,
                   serviceInflight, location>>
    /\ UNCHANGED besidesService

\* refreshAccessToken returns: the new token is stored, or on null the
\* callback logs out and redirects.
RefreshTickSettle ==
    /\ \E i \in IntervalIds :
          /\ tickInflight[i] > 0
          /\ tickInflight' = [tickInflight EXCEPT ![i] = @ - 1]
    /\ \/ /\ \E newToken \in IssuedAccess :
                  storage' = [storage EXCEPT !.access_token = Some(newToken)]
          /\ UNCHANGED <<cleanupTokenRefresh, intervals, nextIntervalId,
                         serviceInflight, location>>
       \/ /\ ServiceSuspend("logout")
          /\ intervals' = cleanup(intervals, cleanupTokenRefresh)
          /\ location' = "/login"
          /\ UNCHANGED <<storage, cleanupTokenRefresh, nextIntervalId>>
    /\ UNCHANGED besidesService

\* The navigation to /login replaces the page: its timers and pending
\* callbacks are gone, a new AuthService is constructed, localStorage stays.
PageUnload ==
    /\ location = "/login"
    /\ location' = "/"
    /\ cleanupTokenRefresh' = None
    /\ intervals' = {}
    /\ tickInflight' = [i \in IntervalIds |-> 0]
    /\ serviceInflight' = [m \in ServiceMethods |-> 0]
    /\ UNCHANGED <<storage, nextIntervalId>>
    /\ UNCHANGED besidesService

ServiceNext ==
    \/ AuthServiceLogin \/ AuthServiceLoginSettle
    \/ AuthServiceRegister \/ AuthServiceRegisterSettle
    \/ AuthServiceLogout \/ AuthServiceLogoutSettle
    \/ RefreshTick \/ RefreshTickSettle
    \/ PageUnload

\* ------------------------------------------------------------------------
\* Part VI.  The session protocol: the store's requests at the server's router
\* ------------------------------------------------------------------------
\* index.tsx: app.route('/api/auth', authRoutes)
AuthMount == <<"api", "auth">>

\* The routes of the auth router
AuthRoutes ==
    {[method |-> "POST",  path |-> <<"login">>,           handler |-> "login"],
     [method |-> "POST",  path |-> <<"register">>,        handler |-> "register"],
     [method |-> "POST",  path |-> <<"refresh">>,         handler |-> "refresh"],
     [method |-> "POST",  path |-> <<"logout">>,          handler |-> "logout"],
     [method |-> "GET",   path |-> <<"validate">>,        handler |-> "validate"],
     [method |-> "GET",   path |-> <<"me">>,              handler |-> "me"],
     [method |-> "PATCH", path |-> <<"profile">>,         handler |-> "profile"],
     [method |-> "POST",  path |-> <<"change-password">>, handler |-> "change-password"]}

MountedRoutes ==
    {[r EXCEPT !.path = AuthMount \o r.path] : r \in AuthRoutes}

\* The router: the handler registered for the method and the path, or the
\* 404 handler of app.notFound.
Dispatch(method, path) ==
    IF \E r \in MountedRoutes : r.method = method /\ r.path = path
    THEN (CHOOSE r \in MountedRoutes : r.method = method /\ r.path = path).handler
    ELSE "notFound"

\* The request each session action of the store sends.  json: it has a JSON
\* body; bearer: it has an Authorization header.  All are sent with the
\* cookies (credentials: 'include').
SessionRequest(method, path, json) ==
    [method |-> method, path |-> path, json |-> json, bearer |-> FALSE]

ClientRequest ==
    [login        |-> SessionRequest("POST", <<"api", "auth", "login">>, TRUE),
     logout       |-> SessionRequest("POST", <<"api", "auth", "logout">>, FALSE),
     refreshToken |-> SessionRequest("POST", <<"api", "auth", "token", "refresh">>, FALSE),
     autoRefresh  |-> SessionRequest("POST", <<"api", "auth", "token", "refresh">>, FALSE),
     validateCurrentSession |->
                      SessionRequest("POST", <<"api", "auth", "validate-token">>, FALSE),
     register     |-> SessionRequest("POST", <<"api", "auth", "register">>, TRUE)]

\* A response without a body the client reads
StatusOnly(status) ==
    [failed |-> FALSE, status |-> status, body |-> IF status = 200 THEN "invalid" ELSE "error",
     user |-> CHOOSE u \in Users : TRUE]

\* fetch rejected: the request did not reach the server
NetworkError ==
    [failed |-> TRUE, status |-> 200, body |-> "malformed",
     user |-> CHOOSE u \in Users : TRUE]

\* What the handler does with the request: the cookies it leaves in the jar
\* and the response.  The issuer's answer is the handler's input.  The
\* handlers behind an unmet zValidator or a missing Authorization header
\* answer 400 and 401.
Answers(handler, req, j, now) ==
    CASE handler = "notFound" ->
            {[jar |-> j, resp |-> StatusOnly(404)]}
      [] handler = "login" ->
            {[jar |-> authLogin(j, now, Ok(r)), resp |-> r] :
                r \in {r \in Responses : ~r.failed}}
      [] handler = "register" ->
            {[jar |-> authRegister(j, now, Ok(r)), resp |-> r] :
                r \in {r \in Responses : ~r.failed}}
      [] handler = "logout" ->
            {[jar |-> authLogout(j), resp |-> StatusOnly(200)]}
      [] handler = "refresh" ->
            IF req.json
            THEN {[jar |-> authRefresh(j, now, Ok(r)), resp |-> r] :
                     r \in {r \in StatusResponses : ~r.failed}}
            ELSE {[jar |-> j, resp |-> StatusOnly(400)]}
      [] handler = "validate" ->
            IF req.bearer
            THEN {[jar |-> j, resp |-> r] : r \in {r \in Responses : ~r.failed}}
            ELSE {[jar |-> j, resp |-> StatusOnly(401)]}

\* The outcomes of one request: the server's answers, or no answer
Outcomes(req, j, now) ==
    {[handler |-> Dispatch(req.method, req.path), jar |-> a.jar, resp |-> a.resp] :
        a \in Answers(Dispatch(req.method, req.path), req, j, now)}
    \cup {[handler |-> "unreached", jar |-> j, resp |-> NetworkError]}

\* The branch the action takes on the response, and what it writes
PathOf(c, resp) ==
    CASE c \in {"login", "register"} -> FetchPath(resp)
      [] c = "logout" -> LogoutPath(resp)
      [] c \in {"refreshToken", "autoRefresh"} -> RefreshPath(resp)
      [] c = "validateCurrentSession" -> ValidatePath(resp)

SettleOf(c, resp, t) ==
    CASE c = "login" -> loginSettle(resp, t)
      [] c = "register" -> registerSettle(resp, t)
      [] c = "logout" -> logoutSettle(resp)
      [] c \in {"refreshToken", "autoRefresh"} -> refreshTokenSettle(resp, t)
      [] c = "validateCurrentSession" -> validateSettle(resp, t)

NoExchange ==
    [op |-> "none", method |-> "", path |-> <<>>, handler |-> "none", status |-> 0]

WireInit == exchange = NoExchange

\* The request of a suspended action is routed and answered, the browser
\* applies the Set-Cookie headers, and the action runs on from its fetch.
RoundTrip ==
    \E c \in Calls :
      \E o \in Outcomes(ClientRequest[c], jar, clock) :
        \E t \in DateNow(PathOf(c, o.resp) = "ok") :
          LET step == SettleOf(c, o.resp, t).step
              tm   == [refreshIntervalId |-> refreshIntervalId,
                       liveTimers |-> liveTimers]
              tm1  == IF effectDisposed THEN tm
                      ELSE RunEffect(tm, isAuthenticated(state), Snapshots(state, step))
          IN  /\ Resume(c)
              /\ state' = ApplyWrites(state, step.writes)
              /\ notified' = Snapshots(state, step)
              /\ refreshIntervalId' = tm1.refreshIntervalId
              /\ liveTimers' = tm1.liveTimers
              /\ Cardinality(tm1.liveTimers) <= MaxLiveTimers
              /\ jar' = o.jar
              /\ exchange' = [op |-> c, method |-> ClientRequest[c].method,
                              path |-> ClientRequest[c].path,
                              handler |-> o.handler, status |-> o.resp.status]
              /\ lastEvent' = Event(c, "settled", PathOf(c, o.resp),
                                    SettleOf(c, o.resp, t).result)
              /\ UNCHANGED <<effectDisposed, clock>>
              /\ UNCHANGED <<chainVars, utilVars, serviceVars>>

ProtocolNext ==
    \/ LoginCall \/ LogoutCall \/ RefreshCall \/ TimerTick
    \/ ValidateCall \/ RegisterCall
    \/ RoundTrip

\* ------------------------------------------------------------------------
\* Specifications
\* ------------------------------------------------------------------------
Init ==
    StoreInit /\ ChainInit /\ CookieInit /\ UtilInit /\ ServiceInit /\ WireInit

\* the client store
Spec == Init /\ [][StoreNext]_vars

\* a request through the server's chain
ChainSpec == Init /\ [][ChainNext]_vars

\* the auth routes and the browser's cookie jar
CookieSpec == Init /\ [][CookieNext]_vars

\* calls of the token codec and of the role table
UtilSpec == Init /\ [][UtilNext]_vars

\* AuthService and its refresh scheduler
ServiceSpec == Init /\ [][ServiceNext]_vars

\* the store's session actions answered by the server's router
ProtocolSpec == Init /\ [][ProtocolNext]_vars

\* ------------------------------------------------------------------------
\* Properties of the client store (checked under Spec)
\* ------------------------------------------------------------------------
Settled(op) == lastEvent.op = op /\ lastEvent.phase = "settled"

\* C1: whatever the outcome of POST /api/auth/logout (2xx, error status,
\* network error), logout() resolves and leaves currentUser = null,
\* lastRefreshTimestamp = null, isLoading = false and error = null.
C1_LogoutAlwaysClears ==
    Settled("logout") =>
        /\ lastEvent.path \in {"ok", "httpError", "networkError"}
        /\ lastEvent.result = "resolved"
        /\ state.currentUser = None
        /\ state.lastRefreshTimestamp = None
        /\ state.isLoading = FALSE
        /\ state.error = None

\* a logout whose request failed with a network error has settled and its
\* clearing of the store was seen by the subscribers
C1_Witness ==
    /\ Settled("logout") /\ lastEvent.path = "networkError"
    /\ notified = <<createAuthStore>>

\* The timer of this store is armed: an id is held and that timer is live.
Armed == refreshIntervalId # None /\ refreshIntervalId \subseteq liveTimers

\* C2 as stated: before destroy(), the timer is armed iff currentUser is
\* present, whatever the user record (an inactive profile included).
C2_ArmedIffUserPresent ==
    ~effectDisposed => (Armed <=> state.currentUser # None)

\* C2 as the code has it: before destroy(), the timer is armed iff
\* currentUser is present and its profile is active.
C2_ArmedIffActiveUser ==
    ~effectDisposed =>
        (Armed <=> (state.currentUser # None /\ TheValue(state.currentUser).activo))

\* an active user is present and the timer is armed, after a completed login
C2_Witness ==
    /\ ~effectDisposed /\ Settled("login") /\ lastEvent.path = "ok"
    /\ state.currentUser # None /\ TheValue(state.currentUser).activo
    /\ Armed

\* C3: at most one interval timer is live, and a live timer is the one whose
\* id the store holds.
C3_AtMostOneTimer ==
    /\ Cardinality(liveTimers) <= 1
    /\ liveTimers \subseteq refreshIntervalId

\* a login completes as bob while a logout is still in flight, and one timer
\* is live
C3_Witness ==
    /\ Settled("login") /\ lastEvent.path = "ok"
    /\ inflight["logout"] > 0
    /\ state.currentUser = Some([username |-> "bob", activo |-> TRUE, role |-> "readonly"])
    /\ Cardinality(liveTimers) = 1

\* C4: a refreshToken() that received 401 or 403 rejects; currentUser and
\* lastRefreshTimestamp are null and error is the session-expired message,
\* subscribers saw that one state only, and no timer is armed or live.
C4_RefreshUnauthorizedClears ==
    (lastEvent.op \in {"refreshToken", "autoRefresh"} /\ lastEvent.phase = "settled"
        /\ lastEvent.path = "sessionExpired") =>
        /\ lastEvent.result = "rejected"
        /\ state.currentUser = None
        /\ state.lastRefreshTimestamp = None
        /\ state.error = Some(SessionExpiredMessage)
        /\ \A i \in DOMAIN notified : notified[i] = state
        /\ refreshIntervalId = None
        /\ liveTimers = {}

\* the timer's refresh got a 401/403 while the store was observed, and the
\* subscribers saw the identity being cleared
C4_Witness ==
    /\ Settled("autoRefresh") /\ lastEvent.path = "sessionExpired"
    /\ ~effectDisposed
    /\ notified = <<state>>
    /\ state.isLoading = FALSE

\* C9: when no login, logout, register or validateCurrentSession is in
\* flight, isLoading is false.
C9_NoActionLeavesLoading ==
    (\A op \in LoadingOps : inflight[op] = 0) => state.isLoading = FALSE

\* a validateCurrentSession that got an error status has completed, nothing
\* is in flight
C9_Witness ==
    /\ Settled("validateCurrentSession") /\ lastEvent.path = "httpError"
    /\ \A c \in Calls : inflight[c] = 0
    /\ state.isLoading = FALSE

\* C10: a step's changes reach the subscribers as one state, the state the
\* step ends in.
C10_AtomicUpdates ==
    /\ Len(notified) <= 1
    /\ \A i \in DOMAIN notified : notified[i] = state

\* a login succeeded: identity, timestamp and loading flag changed together
C10_Witness ==
    /\ Settled("login") /\ lastEvent.path = "ok"
    /\ notified = <<state>>
    /\ state.currentUser # None /\ state.lastRefreshTimestamp # None
    /\ state.isLoading = FALSE

\* C11: no step that completes an operation changes the identity and leaves
\* isLoading true for the subscribers to see, unless the completing operation
\* is one that sets isLoading itself.
C11_NoLoadingCrossTalk ==
    [][(lastEvent'.phase = "settled" /\ state'.currentUser # state.currentUser
            /\ state'.isLoading)
        => lastEvent'.op \in LoadingOps]_vars

\* C12: a login that fails after its fetch (error status, network error,
\* malformed body) rejects, leaves currentUser, lastRefreshTimestamp and the
\* timer as they were, sets error to the failure's message and isLoading to
\* false.
C12_FailedLoginKeepsIdentity ==
    [][(lastEvent'.op = "login" /\ lastEvent'.phase = "settled"
            /\ lastEvent'.path \in {"httpError", "networkError", "malformed"})
        => /\ lastEvent'.result = "rejected"
           /\ state'.currentUser = state.currentUser
           /\ state'.lastRefreshTimestamp = state.lastRefreshTimestamp
           /\ state'.error = Some(ErrorMessage(lastEvent'.path))
           /\ state'.isLoading = FALSE
           /\ refreshIntervalId' = refreshIntervalId
           /\ liveTimers' = liveTimers]_vars

\* a re-login failed with an error status while a user was logged in: the
\* user is still there and the timer still armed
C12_Witness ==
    /\ Settled("login") /\ lastEvent.path = "httpError"
    /\ state.currentUser # None /\ state.lastRefreshTimestamp # None
    /\ state.error = Some(ErrorMessage("httpError"))
    /\ Armed

\* C13 as stated: a login with an empty or whitespace-only username or
\* password issues no request and leaves a message in the error signal.
C13_EmptyLoginSetsError ==
    [][(lastEvent'.op = "login" /\ lastEvent'.path = "localReject")
        => /\ inflight' = inflight
           /\ lastEvent'.result = "rejected"
           /\ state'.error # None]_vars

C15_TransportErrorsReachErrorField ==
    (lastEvent.phase = "settled" /\ lastEvent.path = "networkError"
        /\ lastEvent.op \in {"login", "register", "refreshToken",
                             "validateCurrentSession"})
        => state.error # None

\* C16 as stated: after validateCurrentSession() has completed on a 401 or
\* 403, it has resolved and currentUser is null.
C16_ValidateUnauthorizedClears ==
    (Settled("validateCurrentSession") /\ lastEvent.path = "unauthorized")
        => /\ lastEvent.result = "resolved"
           /\ state.currentUser = None

\* The number of login, logout, register and validateCurrentSession
\* invocations in flight.
LoadingInflight ==
    inflight["login"] + inflight["logout"] + inflight["register"]
        + inflight["validateCurrentSession"]

\* C18 as stated: at most one login, logout, register or
\* validateCurrentSession is in flight, and isLoading is true exactly while
\* one is.
C18_OneLoadingAction ==
    /\ LoadingInflight <= 1
    /\ state.isLoading <=> LoadingInflight > 0

\* C19: once destroy() has been called no timer is live and no id is held,
\* whatever changes the identity afterwards; destroy() resolves and leaves the
\* signals alone, and a second destroy() changes nothing.
C19_DestroyDisarmsForGood ==
    [][/\ effectDisposed' => (liveTimers' = {} /\ refreshIntervalId' = None)
       /\ effectDisposed => effectDisposed'
       /\ lastEvent'.op = "destroy" =>
              /\ effectDisposed'
              /\ lastEvent'.result = "resolved"
              /\ state' = state
              /\ effectDisposed =>
                    /\ refreshIntervalId' = refreshIntervalId
                    /\ liveTimers' = liveTimers]_vars

\* after destroy() an active user logged in and no timer was armed
C19_Witness ==
    /\ effectDisposed
    /\ Settled("login") /\ lastEvent.path = "ok"
    /\ state.currentUser # None /\ TheValue(state.currentUser).activo
    /\ liveTimers = {} /\ refreshIntervalId = None

\* C20 as stated: a completed logout leaves no identity; a completed
\* successful login leaves its user as the identity and (on a store that was
\* not destroyed) the timer armed.
C20_LastCompletionWinsArmed ==
    /\ Settled("logout") => state.currentUser = None
    /\ (Settled("login") /\ lastEvent.path = "ok") =>
          /\ state.currentUser = lastEvent.user
          /\ ~effectDisposed => Armed

\* C20 as the code has it: a completed logout leaves no identity and no
\* timer; a completed successful login leaves its user as the identity, and
\* (on a store that was not destroyed) the timer is armed iff that user's
\* profile is active.
C20_LastCompletionWins ==
    /\ Settled("logout") => (state.currentUser = None /\ liveTimers = {})
    /\ (Settled("login") /\ lastEvent.path = "ok") =>
          /\ state.currentUser = lastEvent.user
          /\ ~effectDisposed => (Armed <=> TheValue(lastEvent.user).activo)

\* login and logout were in flight together and the login completed first:
\* its user is the identity and the timer is armed until the logout completes
C20_Witness ==
    /\ Settled("login") /\ lastEvent.path = "ok" /\ ~effectDisposed
    /\ inflight["logout"] = 1
    /\ state.currentUser = lastEvent.user
    /\ Armed

\* C21 as stated: at most one renewal request is in flight for the store,
\* whether refreshToken() was called by the application or by the timer.
C21_RefreshCoalesced ==
    inflight["refreshToken"] + inflight["autoRefresh"] <= 1

\* C26 as stated: whenever isAuthenticated is false, permissions is empty.
C26_PermissionsEmptyWhenUnauthenticated ==
    ~isAuthenticated(state) => permissions(state) = {}

\* C28 as stated: lastRefreshTimestamp is non-null only if currentUser is.
C28_TimestampOnlyWithUser ==
    state.lastRefreshTimestamp # None => state.currentUser # None

\* ------------------------------------------------------------------------
\* Properties of the middleware chain (checked under ChainSpec)
\* ------------------------------------------------------------------------
StageA == "djangoAuthMiddleware"
StageAOptional == "optionalDjangoAuthMiddleware"
StageB == "djangoClinicContextMiddleware"

\* The middleware at index i has called next().
CalledNext(i) == pos > i
\* The calls made to the issuer's operation op, by index.
CallsOf(op) == {i \in DOMAIN issuerCalls : issuerCalls[i].op = op}
\* The issuer has answered call i with a JSON body.
AnsweredJson(i) ==
    issuerCalls[i].answer # None /\ TheValue(issuerCalls[i].answer).kind = "json"
\* The issuer rejects the credential: {valid: false}, no user, or a 401.
IssuerRejects(a) ==
    \/ a.kind = "json" /\ (~a.valid \/ a.user = None)
    \/ a.kind = "status" /\ a.status = 401
StageBPos == CHOOSE i \in DOMAIN chain : chain[i] = StageB

\* C5: with djangoAuthMiddleware first in the chain, next() is called only
\* for an extracted credential that the issuer answered valid with a user,
\* and then the context holds userId, userRole, clinicaId (as long as Stage B
\* has not re-derived it) and the extracted credential as accessToken; a
\* request without credential gets 401 with no call to the issuer; a
\* credential the issuer rejects gets 401.
C5_StageAGuardsHandler ==
    (pc # "idle" /\ chain[1] = StageA) =>
        LET cred == ExtractCredential(request) IN
        /\ CalledNext(1) =>
              /\ Present(cred)
              /\ issuerCalls # <<>>
              /\ issuerCalls[1] \in
                    { [op |-> "validateToken", token |-> cred, answer |-> Some(a)] :
                        a \in {x \in ValidateAnswers :
                                  x.kind = "json" /\ x.valid /\ x.user # None} }
              /\ ctx.userId # None
              /\ ctx.userRole # None
              /\ ctx.accessToken = cred
              /\ (Len(chain) = 1 \/ pc \in {"middleware", "awaitUser"})
                    => ctx.clinicaId # None
        /\ (~Present(cred) /\ ~(pc = "middleware" /\ pos = 1)) =>
              /\ pc = "done" /\ pos = 1
              /\ response = Some(401)
              /\ issuerCalls = <<>>
        /\ (issuerCalls # <<>> /\ issuerCalls[1].answer # None
                /\ IssuerRejects(TheValue(issuerCalls[1].answer))) =>
              /\ pc = "done" /\ pos = 1
              /\ response = Some(401)

\* Stage A alone let a request through whose credential came from the
\* access_token cookie
C5_Witness ==
    /\ chain = <<StageA>> /\ pc = "handler"
    /\ request.authorization = None /\ request.cookie # None
    /\ ctx.accessToken = request.cookie

\* C6: Stage B calls the issuer or next() only with an accessToken on the
\* context, put there by the stage before it; first in the chain it rejects
\* every request with 401, and after an optional Stage A that attached
\* nothing it rejects with 401, in both cases without a call to users/me.
C6_StageBNeedsStageA ==
    (pc # "idle" /\ \E i \in DOMAIN chain : chain[i] = StageB) =>
        /\ (CalledNext(StageBPos) \/ CallsOf("getCurrentUser") # {}) =>
              /\ StageBPos > 1
              /\ Present(ctx.accessToken)
              /\ 1 \in CallsOf("validateToken")
              /\ issuerCalls[1].token = ctx.accessToken
        /\ StageBPos = 1 =>
              /\ pos = 1
              /\ issuerCalls = <<>>
              /\ pc = "done" => response = Some(401)
        /\ (StageBPos = 2 /\ pos = 2 /\ pc = "done" /\ ~Present(ctx.accessToken)) =>
              /\ response = Some(401)
              /\ CallsOf("getCurrentUser") = {}

\* the optional Stage A had a credential the issuer did not accept, attached
\* nothing, and Stage B rejected the request
C6_Witness ==
    /\ chain = <<StageAOptional, StageB>> /\ pc = "done"
    /\ Len(issuerCalls) = 1 /\ issuerCalls[1].answer # None
    /\ ctx.accessToken = None
    /\ response = Some(401)

\* C7: once the issuer has returned the user record to Stage B, Stage B
\* calls next() iff the profile is active and (it has a clinica_id or the
\* role is superadmin); otherwise the request is answered 403.
C7_StageBAcceptance ==
    \A i \in CallsOf("getCurrentUser") :
        AnsweredJson(i) =>
            LET user   == TheValue(issuerCalls[i].answer).user
                accept == user.activo /\ (user.clinica_id # None \/ user.role = "superadmin")
            IN  /\ CalledNext(StageBPos) <=> accept
                /\ ~accept => (pc = "done" /\ response = Some(403))

\* a superadmin without clinic passed Stage B
C7_Witness ==
    /\ pc = "handler" /\ chain = <<StageA, StageB>>
    /\ ctx.currentUser =
          Some([activo |-> TRUE, clinica_id |-> None, role |-> "superadmin"])

\* The tenant the issuer's answers give the request: the clinica_id of the
\* users/me record when Stage B ran, else that of the validation answer.
TenantFromIssuer ==
    IF \E i \in CallsOf("getCurrentUser") : AnsweredJson(i)
    THEN LET i == CHOOSE j \in CallsOf("getCurrentUser") : AnsweredJson(j)
         IN  TheValue(issuerCalls[i].answer).user.clinica_id
    ELSE IF 1 \in CallsOf("validateToken") /\ AnsweredJson(1)
              /\ TheValue(issuerCalls[1].answer).user # None
    THEN Some(OrEmpty(TheValue(TheValue(issuerCalls[1].answer).user).clinica_id))
    ELSE None

\* C8: every call a handler makes to the data service carries the clinicaId
\* of the request context, which is the one the issuer's answers give,
\* whatever the query string and the JSON body hold.
C8_TenantFromContext ==
    \A i \in DOMAIN dataCalls :
        /\ dataCalls[i].clinica_id = ctx.clinicaId
        /\ dataCalls[i].clinica_id = TenantFromIssuer

\* a student was inserted for clinic c1 although the body named clinic c2
C8_Witness ==
    /\ pc = "done" /\ route = "POST /api/students (supabase)"
    /\ ClinicaOf(request.body) = Some("c2")
    /\ dataCalls # <<>>
    /\ dataCalls[1].clinica_id = Some("c1")

\* The handler of the route has run (the chain called next() to its end).
HandlerRan == pc = "done" /\ pos > Len(chain)

\* C30: no dashboard handler calls the data service with an absent or empty
\* tenant id: when the context holds no clinicaId the handler answers 403
\* without any call, and every call made carries the context's non-empty
\* clinicaId.
C30_NoQueryWithoutTenant ==
    route \in DashboardRoutes =>
        /\ \A i \in DOMAIN dataCalls :
              /\ PresentId(dataCalls[i].clinica_id)
              /\ dataCalls[i].clinica_id = ctx.clinicaId
        /\ (HandlerRan /\ ~PresentId(ctx.clinicaId)) =>
              (response = Some(403) /\ dataCalls = <<>>)

\* a superadmin without clinic passed both stages of the registered chain and
\* the export handler answered 403 without a query
C30_Witness ==
    /\ HandlerRan /\ route = "GET /api/dashboard/export"
    /\ chain = <<"djangoAuthMiddleware", "djangoClinicContextMiddleware">>
    /\ ctx.userRole = Some("superadmin")
    /\ ctx.clinicaId = None
    /\ response = Some(403)
    /\ dataCalls = <<>>

\* ------------------------------------------------------------------------
\* Properties of the auth cookies (checked under CookieSpec)
\* ------------------------------------------------------------------------
\* C17 as stated: whatever /login, /register, /refresh and /logout calls were
\* answered and whatever time has passed, the access_token cookie is present
\* only if the refresh_token cookie is.
C17_AccessOnlyWithRefresh ==
    jar["access_token"] # None => jar["refresh_token"] # None

\* ------------------------------------------------------------------------
\* Properties of the pure functions (checked under UtilSpec)
\* ------------------------------------------------------------------------
\* The token has three segments and its middle one decodes to a JSON object.
WellFormed(token) ==
    Len(token) = 3 /\ token[2].enc = "base64" /\ token[2].text = "object"

\* C22 as stated: for a token whose exp claim gives the expiry T (in ms),
\* shouldRefreshToken called at time t returns true whenever
\* T - REFRESH_BUFFER <= t <= T and false whenever t < T - REFRESH_BUFFER.
C22_RefreshWindowClosed ==
    (call.fn = "shouldRefreshToken" /\ WellFormed(call.token)
        /\ call.token[2].exp # None) =>
        LET T == TheValue(call.token[2].exp) * 1000
            t == call.now
        IN  /\ (T - REFRESH_BUFFER <= t /\ t <= T) => call.result = Returned(TRUE)
            /\ t < T - REFRESH_BUFFER => call.result = Returned(FALSE)

\* C23 as stated: parseJWT never throws and returns a claims object, the
\* empty one for every token that is not well-formed; shouldRefreshToken,
\* isTokenExpired and getTokenExpiryTime never throw.
C23_ParseJWTTotal ==
    /\ call.fn = "parseJWT" =>
          /\ ~call.result.threw
          /\ call.result.value.type = "object"
          /\ ~WellFormed(call.token) => call.result.value = EmptyClaims
    /\ call.fn \in {"shouldRefreshToken", "isTokenExpired", "getTokenExpiryTime"} =>
          ~call.result.threw

\* C24: getRolePermissions returns a defined set for null and for each of the
\* six roles, the empty set for null; hasPermission(role, p) does not throw
\* and is true exactly when p is in getRolePermissions(role).
C24_RoleTableTotal ==
    /\ call.fn = "getRolePermissions" =>
          /\ call.defined /\ ~call.result.threw
          /\ call.result.value \subseteq AllPermissions
          /\ call.role = None => call.result.value = {}
    /\ call.fn = "hasPermission" =>
          /\ call.defined /\ ~call.result.threw
          /\ call.result.value <=> (call.permission \in getRolePermissions(call.role))

\* hasPermission found a permission of the role with the smallest set
C24_Witness ==
    /\ call.fn = "hasPermission" /\ call.role = Some("readonly")
    /\ call.permission = "informes:read"
    /\ call.result = Returned(TRUE)

\* ------------------------------------------------------------------------
\* Properties of AuthService and its scheduler (checked under ServiceSpec)
\* ------------------------------------------------------------------------
\* C25 as stated: whenever an access token is stored, a refresh token is
\* stored too, for every interleaving of login, logout and ticks.
C25_AccessTokenOnlyWithRefreshToken ==
    storage.access_token # None => storage.refresh_token # None

\* C27 as stated: after any sequence of login, register and logout at most
\* one interval of setupTokenRefresh is live, and once logout has been called
\* none is.
C27_AtMostOneInterval ==
    [][/\ Cardinality(intervals') <= 1
       /\ serviceInflight'["logout"] > serviceInflight["logout"] => intervals' = {}]_vars

\* ------------------------------------------------------------------------
\* Properties of the session protocol (checked under ProtocolSpec)
\* ------------------------------------------------------------------------
\* C29 as stated: every request a session action sends is handled by a route
\* of the auth router, and a refreshToken() made by the scheduler while the
\* refresh_token cookie is valid, once answered, has the server set a new
\* access_token cookie and the store update lastRefreshTimestamp.
C29_ClientServerAgree ==
    [][/\ exchange'.handler # "notFound"
       /\ (/\ inflight'["autoRefresh"] < inflight["autoRefresh"]
           /\ jar["refresh_token"] # None
           /\ exchange'.handler # "unreached")
          => /\ jar'["access_token"] = Some(clock + RefreshedAccessMaxAge)
             /\ state'.lastRefreshTimestamp # None]_vars

====
